---- MODULE Spec2Model ----
(***************************************************************************)
(* A model of wollok-ts: the static validator (src/src/validator.ts) and   *)
(* the natives of the game and Sound modules (src/src/wre/game.ts).        *)
(*                                                                         *)
(* The validator is a pure function of an Environment.  An Environment is  *)
(* a tree of node records; a node is identified by its path from the root  *)
(* (the sequence of child indexes), which stands for the node's Id.        *)
(* Names are sequences of one-character strings, so that name[0] and       *)
(* name.includes('.') are computed and not looked up.                      *)
(***************************************************************************)
EXTENDS Integers, Sequences, FiniteSets, TLC

VARIABLES
  environment,  \* validator: the Environment validate is called with
  targetPath,   \* validator: the node validate is called on (its path)
  result,       \* validator: what the validate call produced
  attrs,          \* runtime: the attributes of each RuntimeObject, by key
  lists,          \* runtime: the innerValue of each List instance, by Id
  positionMethod, \* runtime: what each visual's position method answers
  stack,          \* runtime: the operand stack of the current frame
  raised,         \* runtime: the error the last native raised, or "none"
  call,           \* runtime: the last native called, and the stack depth at entry
  calls           \* runtime: the number of natives called so far

(***************************************************************************)
(* Bounds of the model.                                                    *)
(***************************************************************************)
MaxMembers == 2
MaxParams == 2
MaxSentences == 2
MaxLists == 4
MaxStack == 2
MaxCalls == 2

(***************************************************************************)
(* Helpers.                                                                *)
(***************************************************************************)
Undefined == <<>>

Range(s) == { s[i] : i \in DOMAIN s }

SeqsUpTo(S, n) == UNION { [1..k -> S] : k \in 0..n }

Min(S) == CHOOSE x \in S : \A y \in S : x <= y

RECURSIVE Flatten(_)
Flatten(ss) == IF ss = <<>> THEN <<>> ELSE Head(ss) \o Flatten(Tail(ss))

\* The outcome of evaluating a boolean JavaScript expression: a value, or a
\* TypeError raised on reading a property of undefined.
True3 == "true"
False3 == "false"
Raise3 == "TypeError"

B3(b) == IF b THEN True3 ELSE False3

\* a && b and a || b and !a: the right operand is evaluated only when the left
\* one does not decide (or raise).
And3(a, b) == IF a = True3 THEN b ELSE a
Or3(a, b) == IF a = False3 THEN b ELSE a
Not3(a) == IF a = True3 THEN False3 ELSE IF a = False3 THEN True3 ELSE a

\* Array.prototype.some and .every over the outcomes of the callback on each
\* element, in order: the first outcome that decides (or raises) is the result.
Some3(outcomes) ==
  IF \E i \in DOMAIN outcomes : outcomes[i] # False3
  THEN outcomes[Min({ i \in DOMAIN outcomes : outcomes[i] # False3 })]
  ELSE False3

Every3(outcomes) ==
  IF \E i \in DOMAIN outcomes : outcomes[i] # True3
  THEN outcomes[Min({ i \in DOMAIN outcomes : outcomes[i] # True3 })]
  ELSE True3

(***************************************************************************)
(* The AST (model.ts is not part of the sources at hand: node shapes       *)
(* follow the fields validator.ts reads).                                  *)
(***************************************************************************)
Parameter(name, isVarArg) == [kind |-> "Parameter", name |-> name, isVarArg |-> isVarArg]
Body(sentences) == [kind |-> "Body", sentences |-> sentences]
Method(name, parameters, body) ==
  [kind |-> "Method", name |-> name, parameters |-> parameters, body |-> body]
Constructor(parameters) ==
  [kind |-> "Constructor", parameters |-> parameters, body |-> Body(<<>>)]
Field(name) == [kind |-> "Field", name |-> name]
Class(name, members) == [kind |-> "Class", name |-> name, members |-> members]
Mixin(name, members) == [kind |-> "Mixin", name |-> name, members |-> members]
Singleton(name, members) == [kind |-> "Singleton", name |-> name, members |-> members]
Package(name, members) == [kind |-> "Package", name |-> name, members |-> members]
Program(name, body) == [kind |-> "Program", name |-> name, body |-> body]
Test(name, body) == [kind |-> "Test", name |-> name, body |-> body]
Import(reference) == [kind |-> "Import", reference |-> reference]
Reference(name) == [kind |-> "Reference", name |-> name]
Variable(name) == [kind |-> "Variable", name |-> name]
Assignment(reference) == [kind |-> "Assignment", reference |-> reference]
Literal(value) == [kind |-> "Literal", value |-> value]
Super == [kind |-> "Super"]
Return == [kind |-> "Return"]
Catch(body) == [kind |-> "Catch", body |-> body]
Try(body, catches, always) ==
  [kind |-> "Try", body |-> body, catches |-> catches, always |-> always]
Environment(members) == [kind |-> "Environment", members |-> members]

\* The child nodes of a node, in source order (utils.ts).
Children(node) ==
  CASE node.kind \in {"Environment", "Package", "Class", "Mixin", "Singleton"} -> node.members
    [] node.kind = "Method" -> node.parameters \o node.body
    [] node.kind = "Constructor" -> node.parameters \o <<node.body>>
    [] node.kind \in {"Program", "Test", "Catch"} -> <<node.body>>
    [] node.kind = "Body" -> node.sentences
    [] node.kind = "Try" -> <<node.body>> \o node.catches \o <<node.always>>
    [] node.kind \in {"Import", "Assignment"} -> <<node.reference>>
    [] node.kind = "Literal" -> node.value
    [] OTHER -> <<>>

RECURSIVE NodeAt(_, _)
NodeAt(node, path) ==
  IF path = <<>> THEN node ELSE NodeAt(Children(node)[Head(path)], Tail(path))

\* utils(environment).parentOf
parentOf(env, path) == NodeAt(env, SubSeq(path, 1, Len(path) - 1))

\* utils(environment).reduce visits the subtree depth-first, a node before its
\* children, the children in source order: the paths of the subtree below
\* `path`, in the order reduce hands them to its step function.
RECURSIVE reduceOrder(_, _)
reduceOrder(env, path) ==
  LET kids == Children(NodeAt(env, path))
  IN <<path>> \o Flatten([i \in 1..Len(kids) |-> reduceOrder(env, Append(path, i))])

(***************************************************************************)
(* validator.ts: the rules.  A rule's predicate is an operator of the      *)
(* Environment and the path of the node it is evaluated on; its value is   *)
(* True3, False3 or Raise3.                                                *)
(***************************************************************************)
LowerCase ==
  { "a", "b", "c", "d", "e", "f", "g", "h", "i", "j", "k", "l", "m",
    "n", "o", "p", "q", "r", "s", "t", "u", "v", "w", "x", "y", "z" }

UpperCase ==
  { "A", "B", "C", "D", "E", "F", "G", "H", "I", "J", "K", "L", "M",
    "N", "O", "P", "Q", "R", "S", "T", "U", "V", "W", "X", "Y", "Z" }

Keywords ==
  { <<".">>,
    <<",">>,
    <<"(">>,
    <<")">>,
    <<";">>,
    <<"_">>,
    <<"{">>,
    <<"}">>,
    <<"i", "m", "p", "o", "r", "t">>,
    <<"p", "a", "c", "k", "a", "g", "e">>,
    <<"p", "r", "o", "g", "r", "a", "m">>,
    <<"t", "e", "s", "t">>,
    <<"m", "i", "x", "e", "d", " ", "w", "i", "t", "h">>,
    <<"c", "l", "a", "s", "s">>,
    <<"i", "n", "h", "e", "r", "i", "t", "s">>,
    <<"o", "b", "j", "e", "c", "t">>,
    <<"m", "i", "x", "i", "n">>,
    <<"v", "a", "r">>,
    <<"c", "o", "n", "s", "t">>,
    <<"=">>,
    <<"o", "v", "e", "r", "r", "i", "d", "e">>,
    <<"m", "e", "t", "h", "o", "d">>,
    <<"n", "a", "t", "i", "v", "e">>,
    <<"c", "o", "n", "s", "t", "r", "u", "c", "t", "o", "r">>,
    <<"s", "e", "l", "f">>,
    <<"s", "u", "p", "e", "r">>,
    <<"n", "e", "w">>,
    <<"i", "f">>,
    <<"e", "l", "s", "e">>,
    <<"r", "e", "t", "u", "r", "n">>,
    <<"t", "h", "r", "o", "w">>,
    <<"t", "r", "y">>,
    <<"t", "h", "e", "n", " ", "a", "l", "w", "a", "y", "s">>,
    <<"c", "a", "t", "c", "h">>,
    <<":">>,
    <<"+">>,
    <<"n", "u", "l", "l">>,
    <<"f", "a", "l", "s", "e">>,
    <<"t", "r", "u", "e">>,
    <<"=", ">">> }

NameOf(node) == IF "name" \in DOMAIN node THEN node.name ELSE Undefined

\* problem(level)(condition)(node, code): the Problem when the condition is
\* false on the node, null (here: no element) otherwise.
problem(level, condition, node, code) ==
  IF condition = False3
  THEN <<[level |-> level, code |-> code, node |-> node]>>
  ELSE <<>>

\* member1 and member2 are paths of members: the last comparison is by identity.
canBeCalledWithArgs(env, member1, member2) ==
  LET p1 == NodeAt(env, member1).parameters
      p2 == NodeAt(env, member2).parameters
  IN IF Len(p2) = 0
     THEN Raise3   \* member2.parameters[-1] is undefined: reading .isVarArg raises
     ELSE And3(Or3(And3(B3(p2[Len(p2)].isVarArg), B3(Len(p1) >= Len(p2))),
                   B3(Len(p2) = Len(p1))),
               B3(member1 # member2))

\* list is the path of the Class whose members are searched.
matchingConstructors(env, list, member) ==
  LET members == NodeAt(env, list).members
  IN Some3([i \in 1..Len(members) |->
       And3(B3(members[i].kind = "Constructor"),
            canBeCalledWithArgs(env, Append(list, i), member))])

matchingSignatures(env, list, member) ==
  LET members == NodeAt(env, list).members
  IN Some3([i \in 1..Len(members) |->
       And3(B3(members[i].kind = "Method"),
       And3(B3(members[i].name = NodeAt(env, member).name),
            canBeCalledWithArgs(env, Append(list, i), member)))])

bodyIsNotEmpty(node) == B3(Len(node.body.sentences) # 0)

nameIsPascalCase(env, path) ==
  LET node == NodeAt(env, path)
  IN B3(Len(node.name) > 0 /\ node.name[1] \in UpperCase)

nameIsCamelCase(env, path) ==
  LET node == NodeAt(env, path)
  IN B3(node.name # Undefined /\ node.name[1] \in LowerCase)

\* findIndex is -1 when no parameter is a varArg, else the 0-based index of the
\* first one.
findIndexIsVarArg(parameters) ==
  IF \E i \in DOMAIN parameters : parameters[i].isVarArg
  THEN Min({ i \in DOMAIN parameters : parameters[i].isVarArg }) - 1
  ELSE -1

onlyLastParameterIsVarArgNoneAbsent(env, path) ==
  LET node == NodeAt(env, path)
  IN B3(findIndexIsVarArg(node.parameters) + 1 = Len(node.parameters)
        /\ Len(node.parameters) > 0)

onlyLastParameterIsVarArg(env, path) ==
  LET node == NodeAt(env, path)
  IN B3(findIndexIsVarArg(node.parameters) + 1 = Len(node.parameters))

nameIsNotKeyword(env, path) == B3(NodeAt(env, path).name \notin Keywords)

hasCatchOrAlwaysBodyGatesBoth(env, path) ==
  LET t == NodeAt(env, path)
  IN B3((Len(t.catches) # 0 \/ Len(t.always.sentences) # 0)
        /\ Len(t.body.sentences) # 0)

hasCatchOrAlways(env, path) ==
  LET t == NodeAt(env, path)
  IN B3(Len(t.catches) # 0
        \/ (Len(t.always.sentences) # 0 /\ Len(t.body.sentences) # 0))

singletonIsNotUnnamed(env, path) ==
  B3(parentOf(env, path).kind = "Package" /\ NodeAt(env, path).name # Undefined)

importHasNotLocalReference(env, path) ==
  LET members == parentOf(env, path).members
  IN B3(\A i \in DOMAIN members :
          NameOf(members[i]) # NodeAt(env, path).reference.name)

nonAsignationOfFullyQualifiedReferences(env, path) ==
  B3("." \notin Range(NodeAt(env, path).reference.name))

fieldNameDifferentFromTheMethods(env, path) ==
  LET members == parentOf(env, path).members
  IN B3(\A i \in DOMAIN members :
          members[i].kind = "Method" => members[i].name # NodeAt(env, path).name)

methodsHaveDistinctSignatures(env, path) ==
  LET members == NodeAt(env, path).members
  IN Every3([i \in 1..Len(members) |->
       And3(B3(members[i].kind = "Method"),
            Not3(matchingSignatures(env, path, Append(path, i))))])

constructorsHaveDistinctArity(env, path) ==
  LET class == SubSeq(path, 1, Len(path) - 1)
      members == parentOf(env, path).members
  IN Every3([i \in 1..Len(members) |->
       And3(B3(members[i].kind = "Constructor"),
            Not3(matchingConstructors(env, class, Append(class, i))))])

methodNotOnlyCallToSuper(env, path) ==
  LET node == NodeAt(env, path)
  IN IF node.body = Undefined
     THEN Raise3   \* node.body is undefined: reading .sentences raises
     ELSE B3(~(Len(node.body[1].sentences) = 1
               /\ node.body[1].sentences[1].kind = "Super"))

testIsNotEmpty(env, path) == bodyIsNotEmpty(NodeAt(env, path))

programIsNotEmpty(env, path) == bodyIsNotEmpty(NodeAt(env, path))

\* validations(environment): the level and the predicate of each code.
levelOf(code) ==
  IF code \in { "nameIsPascalCase", "nameIsCamelCase", "methodNotOnlyCallToSuper",
                "testIsNotEmpty", "programIsNotEmpty" }
  THEN "Warning" ELSE "Error"

validations(code, env, path) ==
  CASE code = "nameIsPascalCase" -> nameIsPascalCase(env, path)
    [] code = "nameIsCamelCase" -> nameIsCamelCase(env, path)
    [] code = "onlyLastParameterIsVarArg" -> onlyLastParameterIsVarArg(env, path)
    [] code = "nameIsNotKeyword" -> nameIsNotKeyword(env, path)
    [] code = "hasCatchOrAlways" -> hasCatchOrAlways(env, path)
    [] code = "singletonIsNotUnnamed" -> singletonIsNotUnnamed(env, path)
    [] code = "importHasNotLocalReference" -> importHasNotLocalReference(env, path)
    [] code = "nonAsignationOfFullyQualifiedReferences" ->
         nonAsignationOfFullyQualifiedReferences(env, path)
    [] code = "fieldNameDifferentFromTheMethods" ->
         fieldNameDifferentFromTheMethods(env, path)
    [] code = "methodsHaveDistinctSignatures" -> methodsHaveDistinctSignatures(env, path)
    [] code = "constructorsHaveDistinctArity" -> constructorsHaveDistinctArity(env, path)
    [] code = "methodNotOnlyCallToSuper" -> methodNotOnlyCallToSuper(env, path)
    [] code = "testIsNotEmpty" -> testIsNotEmpty(env, path)
    [] code = "programIsNotEmpty" -> programIsNotEmpty(env, path)

(***************************************************************************)
(* validator.ts: the driver.                                               *)
(***************************************************************************)
\* The codes registered for a kind, in the order of the keys of its entry.
problemsByKind(kind) ==
  CASE kind = "Parameter" -> <<"nameIsCamelCase">>
    [] kind = "Import" -> <<"importHasNotLocalReference">>
    [] kind = "Program" -> <<"programIsNotEmpty">>
    [] kind = "Test" -> <<"testIsNotEmpty">>
    [] kind = "Class" -> <<"nameIsPascalCase", "methodsHaveDistinctSignatures">>
    [] kind = "Singleton" -> <<"nameIsCamelCase", "singletonIsNotUnnamed">>
    [] kind = "Mixin" -> <<"nameIsPascalCase">>
    [] kind = "Constructor" -> <<"constructorsHaveDistinctArity">>
    [] kind = "Field" -> <<"fieldNameDifferentFromTheMethods">>
    [] kind = "Method" ->
         <<"onlyLastParameterIsVarArg", "nameIsNotKeyword", "methodNotOnlyCallToSuper">>
    [] kind = "Variable" -> <<"nameIsCamelCase", "nameIsNotKeyword">>
    [] kind = "Assignment" -> <<"nonAsignationOfFullyQualifiedReferences">>
    [] kind = "Reference" -> <<"nameIsNotKeyword">>
    [] kind = "Try" -> <<"hasCatchOrAlways">>
    [] OTHER -> <<>>   \* Body, Catch, Package, Return, Self, New, Literal, Send,
                       \* Super, If, Throw, Environment, Describe: {}

\* The step function handed to reduce: the outcomes of the checks of the node's
\* kind, in key order; a raising check ends the whole call.
Raised == [status |-> "raised", problems |-> <<>>]

Returned(problems) == [status |-> "returned", problems |-> problems]

validateStepPrepending(env, found, path) ==
  LET checks == problemsByKind(NodeAt(env, path).kind)
      outcomes == [i \in 1..Len(checks) |-> validations(checks[i], env, path)]
  IN IF found.status = "raised" \/ \E i \in DOMAIN outcomes : outcomes[i] = Raise3
     THEN Raised
     ELSE Returned(Flatten([i \in 1..Len(checks) |->
            problem(levelOf(checks[i]), outcomes[i], path, checks[i])]) \o found.problems)

validateStep(env, found, path) ==
  LET checks == problemsByKind(NodeAt(env, path).kind)
      outcomes == [i \in 1..Len(checks) |-> validations(checks[i], env, path)]
  IN IF found.status = "raised" \/ \E i \in DOMAIN outcomes : outcomes[i] = Raise3
     THEN Raised
     ELSE Returned(found.problems \o Flatten([i \in 1..Len(checks) |->
            problem(levelOf(checks[i]), outcomes[i], path, checks[i])]))

RECURSIVE foldSteps(_, _, _)
foldSteps(env, found, paths) ==
  IF paths = <<>> THEN found
  ELSE foldSteps(env, validateStep(env, found, Head(paths)), Tail(paths))

\* export default (target, environment): reduce(step)([], target)
validate(target, env) == foldSteps(env, Returned(<<>>), reduceOrder(env, target))

(***************************************************************************)
(* wre/game.ts: the runtime state the natives read and write.              *)
(*                                                                         *)
(* Ids are strings.  An immutable String or Number instance is identified  *)
(* with its innerValue, so that createInstance of one allocates nothing;   *)
(* List instances are mutable and are allocated from a pool, and a List    *)
(* that no attribute and no operand refers to any more gives its Id back.  *)
(***************************************************************************)
TRUE_ID == "true"
FALSE_ID == "false"
NULL_ID == "null"
VOID_ID == "void"

\* self.get(key) of an attribute that was never set
Unset == "undefined"

GAME == "wollok.game.game"
Visuals == { "v1", "v2" }
Sounds == { "s1", "s2" }
Positions == { "p1", "p2", "p3" }

NumberId(n) == "n" \o ToString(n)

\* what io answers to currentTime
CurrentTimes == { 0, 1000 }

NumberValues == (-1..2) \cup CurrentTimes \cup { t + (2 * 1000) : t \in CurrentTimes }

innerValue(id) == CHOOSE n \in NumberValues : NumberId(n) = id

ListId(i) == "list" \o ToString(i)

ListIds == { ListId(i) : i \in 1..MaxLists }

Objects == { GAME } \cup Visuals \cup Sounds \cup Positions

Keys ==
  { "visuals", "sounds", "running", "title", "width", "height", "ground",
    "boardGround", "cellSize", "errorReporter",
    "position", "message", "messageTime", "showAttributes",
    "status", "volume", "loop", "x", "y" }

\* The attributes every evaluation starts with: p1 and p3 are two position
\* objects with the same coordinates, p2 differs from them in y only.
InitialAttributes ==
  [o \in Objects |-> [k \in Keys |->
     CASE o \in { "p1", "p3" } /\ k \in { "x", "y" } -> NumberId(0)
       [] o = "p2" /\ k = "x" -> NumberId(0)
       [] o = "p2" /\ k = "y" -> NumberId(1)
       [] OTHER -> Unset]]

\* The Ids some attribute or some operand refers to.
Referenced(a, st) == { a[o][k] : o \in Objects, k \in Keys } \cup Range(st)

Release(l, a, st) == [id \in DOMAIN l \cap Referenced(a, st) |-> l[id]]

\* evaluation.createInstance('wollok.lang.List', elements): a fresh Id.
CanCreateList(l) == \E id \in ListIds : id \notin DOMAIN l

NewListId(l) == ListId(Min({ i \in 1..MaxLists : ListId(i) \notin DOMAIN l }))

newList(l, elements) == l @@ (NewListId(l) :> elements)

\* How a native ends: it returns, leaving attributes a, lists l and operand
\* stack st, or it raises, leaving a and l and the operand stack as it was.
Returns(native, args, self, a, l, st) ==
  /\ attrs' = a
  /\ lists' = Release(l, a, st)
  /\ stack' = st
  /\ raised' = "none"
  /\ call' = [native |-> native, args |-> args, self |-> self, depth |-> Len(stack),
              tick |-> ~call.tick]

Throws(native, args, self, a, l, error) ==
  /\ attrs' = a
  /\ lists' = Release(l, a, stack)
  /\ stack' = stack
  /\ raised' = error
  /\ call' = [native |-> native, args |-> args, self |-> self, depth |-> Len(stack),
              tick |-> ~call.tick]

returnValue(st, id) == Append(st, id)

returnVoid(st) == returnValue(st, VOID_ID)

\* get(self, key)(evaluation): the operand stack afterwards
get(a, st, self, key) ==
  returnValue(st, IF a[self][key] = Unset THEN NULL_ID ELSE a[self][key])

\* self.set(key, value.id)
setAttribute(a, self, key, value) == [a EXCEPT ![self][key] = value]

\* sendMessage(message, receiver, ...params)(evaluation) drives the message to
\* completion and leaves its result on the operand stack.
sendMessage(st, answer) == Append(st, answer)

\* What the receiver of a redirected message answers.
Answers == { VOID_ID, NULL_ID }

\* redirectTo(receiver)(message, ...params): voidMessage is left at true by
\* every native that uses it.
redirectTo(native) ==
  \E answer \in Answers :
    Returns(native, <<>>, GAME, attrs, lists, returnVoid(sendMessage(stack, answer)))

\* The position a visual's zero-arg position method answers, Unset when its
\* module has no such method.
lookupMethod(self) == positionMethod[self] # Unset

\* getPosition(id)(evaluation): the field when there is one, else the answer
\* to position, popped from the operand stack again.
getPosition(a, id) ==
  IF a[id]["position"] # Unset THEN a[id]["position"] ELSE positionMethod[id]

\* Sending position to a visual that does not understand it raises.
getPositionRaises(a, id) == a[id]["position"] = Unset /\ positionMethod[id] = Unset

samePositionOnX(a, position, id) == a[position]["x"] = a[getPosition(a, id)]["x"]

samePosition(a, position, id) ==
  /\ a[position]["x"] = a[getPosition(a, id)]["x"]
  /\ a[position]["y"] = a[getPosition(a, id)]["y"]

addToInnerCollectionNoDuplicateCheck(a, l, wObject, element, fieldName) ==
  LET absent == a[wObject][fieldName] = Unset
      l1 == IF absent THEN newList(l, <<>>) ELSE l
      a1 == IF absent THEN setAttribute(a, wObject, fieldName, NewListId(l)) ELSE a
      fieldList == a1[wObject][fieldName]
  IN [attrs |-> a1, lists |-> [l1 EXCEPT ![fieldList] = Append(@, element)],
      error |-> "none"]

\* The attributes and lists afterwards, and the error raised ("none": none).
addToInnerCollection(a, l, wObject, element, fieldName) ==
  LET absent == a[wObject][fieldName] = Unset
      l1 == IF absent THEN newList(l, <<>>) ELSE l
      a1 == IF absent THEN setAttribute(a, wObject, fieldName, NewListId(l)) ELSE a
      fieldList == a1[wObject][fieldName]
  IN IF element \in Range(l1[fieldList])
     THEN [attrs |-> a1, lists |-> l1, error |-> "TypeError"]
     ELSE [attrs |-> a1, lists |-> [l1 EXCEPT ![fieldList] = Append(@, element)],
           error |-> "none"]

addVisual(a, l, gameObject, visual) == addToInnerCollection(a, l, gameObject, visual, "visuals")

addSound(a, l, gameObject, sound) == addToInnerCollection(a, l, gameObject, sound, "sounds")

removeFromInnerCollectionUpToElement(a, l, wObject, elementToRemove, fieldName) ==
  IF a[wObject][fieldName] = Unset THEN l
  ELSE [l EXCEPT ![a[wObject][fieldName]] =
          IF elementToRemove \in Range(@) THEN Tail(@) ELSE @]

removeFromInnerCollection(a, l, wObject, elementToRemove, fieldName) ==
  IF a[wObject][fieldName] = Unset THEN l
  ELSE [l EXCEPT ![a[wObject][fieldName]] = SelectSeq(@, LAMBDA id : id # elementToRemove)]

removeVisual(a, l, gameObject, visual) ==
  removeFromInnerCollection(a, l, gameObject, visual, "visuals")

removeSound(a, l, gameObject, sound) ==
  removeFromInnerCollection(a, l, gameObject, sound, "sounds")

toWBoolean(booleanToConvert) == IF booleanToConvert THEN TRUE_ID ELSE FALSE_ID

propertyForgetting(native, self, key, value) ==
  IF value # Unset
  THEN Returns(native, <<value>>, self, setAttribute(attrs, self, key, value), lists,
               returnVoid(stack))
  ELSE Returns(native, <<>>, self, attrs, lists, returnValue(stack, NULL_ID))

\* property(self, key, value?): value is Unset when the argument is absent.
property(native, self, key, value) ==
  IF value # Unset
  THEN Returns(native, <<value>>, self, setAttribute(attrs, self, key, value), lists,
               returnVoid(stack))
  ELSE Returns(native, <<>>, self, attrs, lists, get(attrs, stack, self, key))

\* set(self, key, value)(evaluation) as a whole native
setter(native, args, self, target, key, value) ==
  Returns(native, args, self, setAttribute(attrs, target, key, value), lists, returnVoid(stack))

(***************************************************************************)
(* wre/game.ts: the natives of game.                                       *)
(***************************************************************************)
\* addVisual called with the attributes a, the lists l and the operands st:
\* the attributes, lists and operands afterwards, and the error raised.
gameAddVisualOn(a, l, st, visual) ==
  IF visual = NULL_ID \/ ~lookupMethod(visual)
  THEN [attrs |-> a, lists |-> l, stack |-> st, error |-> "TypeError"]
  ELSE LET added == addVisual(a, l, GAME, visual)
       IN [attrs |-> added.attrs, lists |-> added.lists,
           stack |-> IF added.error = "none" THEN returnVoid(st) ELSE st,
           error |-> added.error]

gameAddVisual ==
  \E visual \in Visuals \cup { NULL_ID } :
    /\ CanCreateList(lists)
    /\ LET outcome == gameAddVisualOn(attrs, lists, stack, visual)
       IN IF outcome.error # "none"
          THEN Throws("game.addVisual", <<visual>>, GAME, outcome.attrs, outcome.lists,
                      outcome.error)
          ELSE Returns("game.addVisual", <<visual>>, GAME, outcome.attrs, outcome.lists,
                       outcome.stack)

gameAddVisualInAppending ==
  \E visual \in Visuals \cup { NULL_ID }, position \in Positions \cup { NULL_ID } :
    /\ CanCreateList(lists)
    /\ IF visual = NULL_ID \/ position = NULL_ID
       THEN Throws("game.addVisualIn", <<visual, position>>, GAME, attrs, lists, "TypeError")
       ELSE LET added == addToInnerCollectionNoDuplicateCheck(
                           setAttribute(attrs, visual, "position", position),
                           lists, GAME, visual, "visuals")
            IN Returns("game.addVisualIn", <<visual, position>>, GAME, added.attrs, added.lists,
                       returnVoid(stack))

gameAddVisualInLookingUpPosition ==
  \E visual \in Visuals \cup { NULL_ID }, position \in Positions \cup { NULL_ID } :
    /\ CanCreateList(lists)
    /\ IF visual = NULL_ID \/ position = NULL_ID
       THEN Throws("game.addVisualIn", <<visual, position>>, GAME, attrs, lists, "TypeError")
       ELSE LET outcome == gameAddVisualOn(setAttribute(attrs, visual, "position", position),
                                           lists, stack, visual)
            IN IF outcome.error # "none"
               THEN Throws("game.addVisualIn", <<visual, position>>, GAME, outcome.attrs,
                           outcome.lists, outcome.error)
               ELSE Returns("game.addVisualIn", <<visual, position>>, GAME, outcome.attrs,
                            outcome.lists, outcome.stack)

gameAddVisualIn ==
  \E visual \in Visuals \cup { NULL_ID }, position \in Positions \cup { NULL_ID } :
    /\ CanCreateList(lists)
    /\ IF visual = NULL_ID \/ position = NULL_ID
       THEN Throws("game.addVisualIn", <<visual, position>>, GAME, attrs, lists, "TypeError")
       ELSE LET added == addVisual(setAttribute(attrs, visual, "position", position),
                                   lists, GAME, visual)
            IN IF added.error # "none"
               THEN Throws("game.addVisualIn", <<visual, position>>, GAME, added.attrs,
                           added.lists, added.error)
               ELSE Returns("game.addVisualIn", <<visual, position>>, GAME, added.attrs, added.lists,
                            returnVoid(stack))

gameAddVisualCharacter == redirectTo("game.addVisualCharacter")

gameAddVisualCharacterIn == redirectTo("game.addVisualCharacterIn")

gameRemoveVisual ==
  \E visual \in Visuals \cup { NULL_ID } :
    Returns("game.removeVisual", <<visual>>, GAME, attrs, removeVisual(attrs, lists, GAME, visual),
            returnVoid(stack))

gameWhenKeyPressedDo == redirectTo("game.whenKeyPressedDo")

gameWhenCollideDo == redirectTo("game.whenCollideDo")

gameOnCollideDo == redirectTo("game.onCollideDo")

gameOnTick == redirectTo("game.onTick")

gameSchedule == redirectTo("game.schedule")

gameRemoveTickEvent == redirectTo("game.removeTickEvent")

gameAllVisualsShared ==
  /\ CanCreateList(lists)
  /\ LET visuals == attrs[GAME]["visuals"]
     IN IF visuals = Unset
        THEN Returns("game.allVisuals", <<>>, GAME, attrs, newList(lists, <<>>),
                     returnValue(stack, NewListId(lists)))
        ELSE Returns("game.allVisuals", <<>>, GAME, attrs, lists, returnValue(stack, visuals))

gameAllVisuals ==
  /\ CanCreateList(lists)
  /\ LET visuals == attrs[GAME]["visuals"]
         elements == IF visuals = Unset THEN <<>> ELSE lists[visuals]
     IN Returns("game.allVisuals", <<>>, GAME, attrs, newList(lists, elements),
                returnValue(stack, NewListId(lists)))

gameHasVisual ==
  \E visual \in Visuals \cup { NULL_ID } :
    LET visuals == attrs[GAME]["visuals"]
    IN Returns("game.hasVisual", <<visual>>, GAME, attrs, lists,
               returnValue(stack, IF visuals = Unset THEN FALSE_ID
                                  ELSE toWBoolean(visual \in Range(lists[visuals]))))

gameGetObjectsIn ==
  \E position \in Positions :
    /\ CanCreateList(lists)
    /\ LET visuals == attrs[GAME]["visuals"]
       IN IF visuals = Unset
          THEN Returns("game.getObjectsIn", <<position>>, GAME, attrs, newList(lists, <<>>),
                       returnValue(stack, NewListId(lists)))
          ELSE IF \E id \in Range(lists[visuals]) : getPositionRaises(attrs, id)
          THEN Throws("game.getObjectsIn", <<position>>, GAME, attrs, lists, "Error")
          ELSE Returns("game.getObjectsIn", <<position>>, GAME, attrs,
                       newList(lists, SelectSeq(lists[visuals],
                                                LAMBDA id : samePosition(attrs, position, id))),
                       returnValue(stack, NewListId(lists)))

\* The answer to currentTime is popped again; each of the two set(...) calls
\* ends in returnVoid.
gameSay ==
  \E visual \in Visuals, message \in { "hello" }, currentTime \in CurrentTimes :
    LET sent == sendMessage(stack, NumberId(currentTime))
        wCurrentTime == sent[Len(sent)]
        popped == SubSeq(sent, 1, Len(sent) - 1)
        messageTime == NumberId(innerValue(wCurrentTime) + (2 * 1000))
        a1 == setAttribute(attrs, visual, "message", message)
        a2 == setAttribute(a1, visual, "messageTime", messageTime)
    IN Returns("game.say", <<visual, message>>, GAME, a2, lists, returnVoid(returnVoid(popped)))

gameClear ==
  \E answer \in Answers :
    /\ CanCreateList(lists)
    /\ Returns("game.clear", <<>>, GAME, setAttribute(attrs, GAME, "visuals", NewListId(lists)),
               newList(lists, <<>>), returnVoid(sendMessage(stack, answer)))

gameCollidersIncludingVisual ==
  \E visual \in Visuals \cup { NULL_ID } :
    /\ CanCreateList(lists)
    /\ LET visuals == attrs[GAME]["visuals"]
       IN IF visual = NULL_ID
          THEN Throws("game.colliders", <<visual>>, GAME, attrs, lists, "TypeError")
          ELSE IF visuals = Unset
          THEN Returns("game.colliders", <<visual>>, GAME, attrs, newList(lists, <<>>),
                       returnValue(stack, NewListId(lists)))
          ELSE IF \E id \in Range(lists[visuals]) \cup { visual } : getPositionRaises(attrs, id)
          THEN Throws("game.colliders", <<visual>>, GAME, attrs, lists, "Error")
          ELSE Returns("game.colliders", <<visual>>, GAME, attrs,
                       newList(lists,
                         SelectSeq(lists[visuals],
                           LAMBDA id : samePosition(attrs, getPosition(attrs, visual), id))),
                       returnValue(stack, NewListId(lists)))

gameColliders ==
  \E visual \in Visuals \cup { NULL_ID } :
    /\ CanCreateList(lists)
    /\ LET visuals == attrs[GAME]["visuals"]
       IN IF visual = NULL_ID
          THEN Throws("game.colliders", <<visual>>, GAME, attrs, lists, "TypeError")
          ELSE IF visuals = Unset
          THEN Returns("game.colliders", <<visual>>, GAME, attrs, newList(lists, <<>>),
                       returnValue(stack, NewListId(lists)))
          ELSE IF \E id \in Range(lists[visuals]) \cup { visual } : getPositionRaises(attrs, id)
          THEN Throws("game.colliders", <<visual>>, GAME, attrs, lists, "Error")
          ELSE Returns("game.colliders", <<visual>>, GAME, attrs,
                       newList(lists,
                         SelectSeq(SelectSeq(lists[visuals],
                                     LAMBDA id : samePosition(attrs, getPosition(attrs, visual), id)),
                                   LAMBDA id : id # visual)),
                       returnValue(stack, NewListId(lists)))

gameTitle == \E title \in { "a title", Unset } : property("game.title", GAME, "title", title)

gameWidth == \E width \in { NumberId(2), Unset } : property("game.width", GAME, "width", width)

gameHeight ==
  \E height \in { NumberId(2), Unset } : property("game.height", GAME, "height", height)

gameGround == setter("game.ground", <<"ground.png">>, GAME, GAME, "ground", "ground.png")

gameBoardGround == setter("game.boardGround", <<"board.png">>, GAME, GAME, "boardGround", "board.png")

gameDoCellSize == setter("game.doCellSize", <<NumberId(1)>>, GAME, GAME, "cellSize", NumberId(1))

gameStop == setter("game.stop", <<>>, GAME, GAME, "running", FALSE_ID)

gameHideAttributes ==
  \E visual \in Visuals : setter("game.hideAttributes", <<visual>>, GAME, visual, "showAttributes", FALSE_ID)

gameShowAttributes ==
  \E visual \in Visuals : setter("game.showAttributes", <<visual>>, GAME, visual, "showAttributes", TRUE_ID)

gameErrorReporter ==
  \E visual \in Visuals : setter("game.errorReporter", <<visual>>, GAME, GAME, "errorReporter", visual)

gameDoStart == setter("game.doStart", <<>>, GAME, GAME, "running", TRUE_ID)

(***************************************************************************)
(* wre/game.ts: the natives of Sound.                                      *)
(***************************************************************************)
SoundPlayUnlessStopped(self) ==
  /\ CanCreateList(lists)
  /\ IF attrs[GAME]["running"] = FALSE_ID
     THEN Throws("Sound.play", <<>>, self, attrs, lists, "Error")
     ELSE LET added == addSound(setAttribute(attrs, self, "status", "played"), lists, GAME, self)
          IN IF added.error # "none"
             THEN Throws("Sound.play", <<>>, self, added.attrs, added.lists, added.error)
             ELSE Returns("Sound.play", <<>>, self, added.attrs, added.lists, returnVoid(stack))

SoundPlay(self) ==
  /\ CanCreateList(lists)
  /\ IF attrs[GAME]["running"] # TRUE_ID
     THEN Throws("Sound.play", <<>>, self, attrs, lists, "Error")
     ELSE LET added == addSound(setAttribute(attrs, self, "status", "played"), lists, GAME, self)
          IN IF added.error # "none"
             THEN Throws("Sound.play", <<>>, self, added.attrs, added.lists, added.error)
             ELSE Returns("Sound.play", <<>>, self, added.attrs, added.lists, returnVoid(stack))

SoundPlayed(self) ==
  Returns("Sound.played", <<>>, self, attrs, lists,
          returnValue(stack, toWBoolean(attrs[self]["status"] = "played")))

SoundStopKeepingSound(self) ==
  IF attrs[self]["status"] # "played"
  THEN Throws("Sound.stop", <<>>, self, attrs, lists, "Error")
  ELSE Returns("Sound.stop", <<>>, self, setAttribute(attrs, self, "status", "stopped"),
               lists, returnVoid(stack))

SoundStop(self) ==
  IF attrs[self]["status"] # "played"
  THEN Throws("Sound.stop", <<>>, self, attrs, lists, "Error")
  ELSE Returns("Sound.stop", <<>>, self, setAttribute(attrs, self, "status", "stopped"),
               removeSound(attrs, lists, GAME, self), returnVoid(stack))

SoundPause(self) ==
  IF attrs[self]["status"] # "played"
  THEN Throws("Sound.pause", <<>>, self, attrs, lists, "Error")
  ELSE Returns("Sound.pause", <<>>, self, setAttribute(attrs, self, "status", "paused"), lists,
               returnVoid(stack))

SoundResume(self) ==
  IF attrs[self]["status"] # "paused"
  THEN Throws("Sound.resume", <<>>, self, attrs, lists, "Error")
  ELSE Returns("Sound.resume", <<>>, self, setAttribute(attrs, self, "status", "played"), lists,
               returnVoid(stack))

SoundPaused(self) ==
  Returns("Sound.paused", <<>>, self, attrs, lists,
          returnValue(stack, toWBoolean(attrs[self]["status"] = "paused")))

SoundVolumeBelowOne(self) ==
  \E newVolume \in { NumberId(n) : n \in -1..2 } \cup { Unset } :
    IF newVolume # Unset /\ (innerValue(newVolume) < 0 \/ innerValue(newVolume) >= 1)
    THEN Throws("Sound.volume", <<newVolume>>, self, attrs, lists, "RangeError")
    ELSE property("Sound.volume", self, "volume", newVolume)

SoundVolume(self) ==
  \E newVolume \in { NumberId(n) : n \in -1..2 } \cup { Unset } :
    IF newVolume # Unset /\ (innerValue(newVolume) < 0 \/ innerValue(newVolume) > 1)
    THEN Throws("Sound.volume", <<newVolume>>, self, attrs, lists, "RangeError")
    ELSE property("Sound.volume", self, "volume", newVolume)

SoundShouldLoop(self) ==
  \E looping \in { TRUE_ID, FALSE_ID, Unset } :
    property("Sound.shouldLoop", self, "loop", looping)

\* The interpreter consumes the operand on top of the stack.
popOperand ==
  /\ stack # <<>>
  /\ attrs' = attrs
  /\ stack' = SubSeq(stack, 1, Len(stack) - 1)
  /\ lists' = Release(lists, attrs, SubSeq(stack, 1, Len(stack) - 1))
  /\ raised' = "none"
  /\ call' = [native |-> "none", args |-> <<>>, self |-> GAME, depth |-> Len(stack),
              tick |-> ~call.tick]

(***************************************************************************)
(* The Environments validate is run on: a Package with one member, which   *)
(* is a Class with up to MaxMembers members of every shape, or a module,   *)
(* Program or Test around a body of up to MaxSentences sentences.          *)
(***************************************************************************)
ParameterLists == SeqsUpTo({ Parameter(<<"a">>, v) : v \in BOOLEAN }, MaxParams)

ClassMembers ==
  { Method(<<"m">>, ps, <<Body(<<>>)>>) : ps \in ParameterLists }
    \cup { Method(<<"n">>, <<Parameter(<<"a">>, FALSE)>>, <<Body(<<>>)>>) }
    \cup { Constructor(ps) : ps \in ParameterLists }
    \cup { Field(<<"m">>) }

Tries ==
  { Try(Body(b), cs, Body(a)) :
      b \in { <<>>, <<Return>> },
      cs \in { <<>>, <<Catch(Body(<<>>))>> },
      a \in { <<>>, <<Return>> } }

Sentences ==
  { Super, Return } \cup Tries
    \cup { Literal(<<Singleton(n, <<>>)>>) : n \in { Undefined, <<"o">> } }
    \cup { Variable(n) : n \in { <<"x">>, <<"X">>, <<"v", "a", "r">> } }
    \cup { Assignment(Reference(n)) : n \in { <<"x">>, <<"p", ".", "x">> } }

Bodies == { Body(ss) : ss \in SeqsUpTo(Sentences, MaxSentences) }

TopLevels ==
  { Class(<<"C">>, ms) : ms \in SeqsUpTo(ClassMembers, MaxMembers) }
    \cup { Singleton(n, <<Method(<<"m">>, <<>>, b)>>) :
             n \in { Undefined, <<"o">>, <<"O">> },
             b \in { Undefined } \cup { <<body>> : body \in Bodies } }
    \cup { Mixin(<<"x">>, <<Method(<<"t", "r", "y">>, <<Parameter(<<"A">>, TRUE)>>, <<body>>)>>) :
             body \in Bodies }
    \cup { Program(<<"p">>, body) : body \in Bodies }
    \cup { Test(<<"t">>, body) : body \in Bodies }

Environments == { Environment(<<Package(<<"p">>, <<top>>)>>) : top \in TopLevels }

\* validate is called on the Environment or on the member of its Package.
Targets == { <<>>, <<1, 1>> }

Pending == [status |-> "pending", problems |-> <<>>]

NoCall == [native |-> "none", args |-> <<>>, self |-> GAME, depth |-> 0, tick |-> FALSE]

vars ==
  <<environment, targetPath, result, attrs, lists, positionMethod, stack, raised, call, calls>>

validatorVars == <<environment, targetPath, result>>

runtimeVars == <<attrs, lists, positionMethod, stack, raised, call, calls>>

\* Nothing validated yet.
InitValidator ==
  /\ environment = Environment(<<>>)
  /\ targetPath = <<>>
  /\ result = Pending

\* The evaluation has just started: no attribute set, no List created, an
\* empty operand stack.
InitRuntime ==
  /\ attrs = InitialAttributes
  /\ lists = [id \in {} |-> <<>>]
  /\ stack = <<>>
  /\ raised = "none"
  /\ call = NoCall
  /\ calls = 0

(***************************************************************************)
(* SpecValidate: validate, called once on each Environment.                *)
(***************************************************************************)
InitValidate ==
  /\ environment \in Environments
  /\ targetPath = <<>>
  /\ result = Pending
  /\ InitRuntime
  /\ positionMethod = [v \in Visuals |-> Unset]

Validate ==
  /\ result.status = "pending"
  /\ \E t \in Targets :
       /\ targetPath' = t
       /\ result' = validate(t, environment)
  /\ UNCHANGED <<environment, runtimeVars>>

NextValidate == Validate

SpecValidate == InitValidate /\ [][NextValidate]_vars

(***************************************************************************)
(* Spec: up to MaxCalls calls of any natives of game and Sound, from the   *)
(* start of an evaluation.                                                 *)
(***************************************************************************)
Init ==
  /\ InitValidator
  /\ InitRuntime
  /\ positionMethod \in [Visuals -> Positions \cup { Unset }]

\* One more native is called, while fewer than MaxCalls were.
Called(native) ==
  /\ calls < MaxCalls
  /\ calls' = calls + 1
  /\ native
  /\ UNCHANGED <<validatorVars, positionMethod>>

Next ==
  \/ Called(gameAddVisual)
  \/ Called(gameAddVisualIn)
  \/ Called(gameAddVisualCharacter)
  \/ Called(gameAddVisualCharacterIn)
  \/ Called(gameRemoveVisual)
  \/ Called(gameWhenKeyPressedDo)
  \/ Called(gameWhenCollideDo)
  \/ Called(gameOnCollideDo)
  \/ Called(gameOnTick)
  \/ Called(gameSchedule)
  \/ Called(gameRemoveTickEvent)
  \/ Called(gameAllVisuals)
  \/ Called(gameHasVisual)
  \/ Called(gameGetObjectsIn)
  \/ Called(gameSay)
  \/ Called(gameClear)
  \/ Called(gameColliders)
  \/ Called(gameTitle)
  \/ Called(gameWidth)
  \/ Called(gameHeight)
  \/ Called(gameGround)
  \/ Called(gameBoardGround)
  \/ Called(gameDoCellSize)
  \/ Called(gameStop)
  \/ Called(gameHideAttributes)
  \/ Called(gameShowAttributes)
  \/ Called(gameErrorReporter)
  \/ Called(gameDoStart)
  \/ Called(\E self \in Sounds : SoundPlay(self))
  \/ Called(\E self \in Sounds : SoundPlayed(self))
  \/ Called(\E self \in Sounds : SoundStop(self))
  \/ Called(\E self \in Sounds : SoundPause(self))
  \/ Called(\E self \in Sounds : SoundResume(self))
  \/ Called(\E self \in Sounds : SoundPaused(self))
  \/ Called(\E self \in Sounds : SoundVolume(self))
  \/ Called(\E self \in Sounds : SoundShouldLoop(self))

Spec == Init /\ [][Next]_vars

(***************************************************************************)
(* SpecSound: any sequence of the Sound events and of game.doStart,        *)
(* game.stop and game.clear, the interpreter consuming results in between. *)
(***************************************************************************)
InitSound ==
  /\ InitValidator
  /\ InitRuntime
  /\ positionMethod = [v \in Visuals |-> Unset]

\* A native is called on a frame with fewer than MaxStack operands.
Evaluated(native) ==
  /\ Len(stack) < MaxStack
  /\ native
  /\ UNCHANGED <<validatorVars, positionMethod, calls>>

NextSound ==
  \/ Evaluated(gameDoStart)
  \/ Evaluated(gameStop)
  \/ Evaluated(gameClear)
  \/ Evaluated(\E self \in Sounds : SoundPlay(self))
  \/ Evaluated(\E self \in Sounds : SoundStop(self))
  \/ Evaluated(\E self \in Sounds : SoundPause(self))
  \/ Evaluated(\E self \in Sounds : SoundResume(self))
  \/ Evaluated(\E self \in Sounds : SoundPlayed(self))
  \/ Evaluated(\E self \in Sounds : SoundPaused(self))
  \/ popOperand /\ UNCHANGED <<validatorVars, positionMethod, calls>>

SpecSound == InitSound /\ [][NextSound]_vars

(***************************************************************************)
(* Properties of the validator.                                            *)
(***************************************************************************)
\* The nodes of the subtree validate was called on.
TargetNodes == Range(reduceOrder(environment, targetPath))

NodesOfKind(kind) == { p \in TargetNodes : NodeAt(environment, p).kind = kind }

Reported(code, path) ==
  \E i \in DOMAIN result.problems :
    result.problems[i].code = code /\ result.problems[i].node = path

ReportedAs(code, level, path) ==
  \E i \in DOMAIN result.problems :
    result.problems[i] = [level |-> level, code |-> code, node |-> path]

\* C4: validate never raises: on every Environment it returns a list.
C4_ValidateNeverRaises == result.status # "raised"

\* p comes before q in the depth-first pre-order of the tree: p is an ancestor
\* of q, or at the first index where they differ p takes the earlier child.
PreOrderBefore(p, q) ==
  \/ Len(p) < Len(q) /\ SubSeq(q, 1, Len(p)) = p
  \/ \E k \in 1..Len(p) :
       /\ k <= Len(q)
       /\ SubSeq(p, 1, k - 1) = SubSeq(q, 1, k - 1)
       /\ p[k] < q[k]

DeclaredAt(kind, code) ==
  CHOOSE i \in DOMAIN problemsByKind(kind) : problemsByKind(kind)[i] = code

\* C5: the list validate returns holds one Problem {code, level, node} for
\* each node of the target subtree and each rule of the node's kind whose
\* predicate is false on the node, and nothing else, ordered by the pre-order
\* of the nodes and, on one node, by the order the kind's rules are declared.
C5_ProblemsAreFailedRulesInOrder ==
  result.status = "returned" =>
    LET r == result.problems
        kindOf(path) == NodeAt(environment, path).kind
    IN /\ \A i \in DOMAIN r :
            /\ r[i].node \in TargetNodes
            /\ r[i].code \in Range(problemsByKind(kindOf(r[i].node)))
            /\ r[i].level = levelOf(r[i].code)
            /\ validations(r[i].code, environment, r[i].node) = False3
       /\ \A path \in TargetNodes :
            \A code \in Range(problemsByKind(kindOf(path))) :
              validations(code, environment, path) = False3 =>
                Cardinality({ i \in DOMAIN r : r[i].node = path /\ r[i].code = code }) = 1
       /\ \A i, j \in DOMAIN r :
            i < j =>
              \/ PreOrderBefore(r[i].node, r[j].node)
              \/ /\ r[i].node = r[j].node
                 /\ DeclaredAt(kindOf(r[i].node), r[i].code)
                      < DeclaredAt(kindOf(r[j].node), r[j].code)

\* A returned list with two problems on one node and a problem on another.
C5_Witness ==
  /\ result.status = "returned"
  /\ \E i, j, k \in DOMAIN result.problems :
       /\ i < j
       /\ result.problems[i].node = result.problems[j].node
       /\ result.problems[k].node # result.problems[i].node

\* Compatible arity of two members, as section 4.3 of the specification
\* states it: the second ends in a varArg and the first has at least as many
\* parameters, or both have the same number of parameters.
CompatibleArity(m1, m2) ==
  \/ /\ Len(m2.parameters) > 0
     /\ m2.parameters[Len(m2.parameters)].isVarArg
     /\ Len(m1.parameters) >= Len(m2.parameters)
  \/ Len(m1.parameters) = Len(m2.parameters)

HasSignatureClash(class) ==
  \E i, j \in DOMAIN class.members :
    /\ i # j
    /\ class.members[i].kind = "Method"
    /\ class.members[j].kind = "Method"
    /\ class.members[i].name = class.members[j].name
    /\ CompatibleArity(class.members[i], class.members[j])

\* C6: methodsHaveDistinctSignatures is reported on a Class exactly when two
\* distinct methods of the class have the same name and compatible arity.
C6_SignatureErrorIffClash ==
  result.status = "returned" =>
    \A path \in NodesOfKind("Class") :
      Reported("methodsHaveDistinctSignatures", path)
        <=> HasSignatureClash(NodeAt(environment, path))

\* m(a1..an) and m(a1..an, ...rest): n fixed parameters, and the same followed
\* by a trailing varArg.
HasVarArgExtension(class) ==
  \E i, j \in DOMAIN class.members :
    LET m1 == class.members[i]
        m2 == class.members[j]
    IN /\ m1.kind = "Method"
       /\ m2.kind = "Method"
       /\ m1.name = m2.name
       /\ Len(m2.parameters) = Len(m1.parameters) + 1
       /\ \A k \in DOMAIN m1.parameters :
            ~m1.parameters[k].isVarArg /\ ~m2.parameters[k].isVarArg
       /\ m2.parameters[Len(m2.parameters)].isVarArg

\* C7: a class with m(a) and m(a, ...rest) is reported as an overload clash.
C7_VarArgExtensionClashes ==
  result.status = "returned" =>
    \A path \in NodesOfKind("Class") :
      HasVarArgExtension(NodeAt(environment, path)) =>
        Reported("methodsHaveDistinctSignatures", path)

HasVarArg(method) == \E k \in DOMAIN method.parameters : method.parameters[k].isVarArg

FirstVarArgIsLast(method) ==
  /\ HasVarArg(method)
  /\ \A k \in DOMAIN method.parameters :
       method.parameters[k].isVarArg => k = Len(method.parameters)

\* C8 as stated: onlyLastParameterIsVarArg is an Error on every Method without
\* a varArg parameter (a method without parameters included) and on every
\* Method whose first varArg is not its last parameter, and on no other.
C8_ErrorUnlessVarArgLast ==
  result.status = "returned" =>
    \A path \in NodesOfKind("Method") :
      ReportedAs("onlyLastParameterIsVarArg", "Error", path)
        <=> ~FirstVarArgIsLast(NodeAt(environment, path))

\* C8 amended: onlyLastParameterIsVarArg is an Error on every Method that has
\* parameters but no varArg, and on every Method whose first varArg is not its
\* last parameter; a Method without parameters, and one whose only varArg is
\* its last parameter, get no such problem.
C8_ErrorUnlessVarArgLastOrNoParameters ==
  result.status = "returned" =>
    \A path \in NodesOfKind("Method") :
      LET method == NodeAt(environment, path)
      IN ReportedAs("onlyLastParameterIsVarArg", "Error", path)
           <=> (~FirstVarArgIsLast(method) /\ Len(method.parameters) > 0)

\* validate returned for a Method without parameters, and reported nothing on
\* its parameters.
C8_Witness ==
  /\ result.status = "returned"
  /\ \E path \in NodesOfKind("Method") :
       /\ Len(NodeAt(environment, path).parameters) = 0
       /\ ~Reported("onlyLastParameterIsVarArg", path)

\* C9: singletonIsNotUnnamed is an Error exactly on a Singleton that has no
\* name and whose parent is a Package; a Singleton elsewhere is accepted.
C9_ErrorIffUnnamedInPackage ==
  result.status = "returned" =>
    \A path \in NodesOfKind("Singleton") :
      ReportedAs("singletonIsNotUnnamed", "Error", path)
        <=> (parentOf(environment, path).kind = "Package"
             /\ NodeAt(environment, path).name = Undefined)

\* C10: hasCatchOrAlways is an Error on a Try exactly when it has no catch
\* and its always block or its body is empty.
C10_ErrorIffNoCatchAndEmptyAlwaysOrBody ==
  result.status = "returned" =>
    \A path \in NodesOfKind("Try") :
      LET t == NodeAt(environment, path)
      IN ReportedAs("hasCatchOrAlways", "Error", path)
           <=> (Len(t.catches) = 0
                /\ (Len(t.always.sentences) = 0 \/ Len(t.body.sentences) = 0))

\* validate returned for a Try with a catch and an empty body, which it
\* accepted, and for a Try it reported.
C10_Witness ==
  /\ result.status = "returned"
  /\ \E path \in NodesOfKind("Try") :
       /\ Len(NodeAt(environment, path).catches) > 0
       /\ Len(NodeAt(environment, path).body.sentences) = 0
       /\ ~Reported("hasCatchOrAlways", path)
  /\ \E path \in NodesOfKind("Try") : Reported("hasCatchOrAlways", path)

(***************************************************************************)
(* Properties of the natives.                                              *)
(***************************************************************************)
\* C1: a native of game or Sound that returns leaves the operand stack one Id
\* deeper than it was when the native was entered.
C1_NativePushesOneOperand ==
  (call.native # "none" /\ raised = "none") => Len(stack) = call.depth + 1

SoundEvents == { "Sound.play", "Sound.stop", "Sound.pause", "Sound.resume" }

\* The transitions of section 4.7: <<event, status before, status after>>.
SoundTransitions ==
  { <<"Sound.play", Unset, "played">>,
    <<"Sound.play", "stopped", "played">>,
    <<"Sound.stop", "played", "stopped">>,
    <<"Sound.pause", "played", "paused">>,
    <<"Sound.resume", "paused", "played">> }

\* C2: with the game running, an event on a Sound succeeds exactly when section
\* 4.7 has a transition for it from the Sound's status, and then leaves the
\* status of that transition; every other event raises an error.
C2_SoundEventsFollowTransitions ==
  [][\A self \in Sounds :
       (/\ call'.native \in SoundEvents
        /\ call'.self = self
        /\ attrs[GAME]["running"] = TRUE_ID)
       => IF \E t \in SoundTransitions : t[1] = call'.native /\ t[2] = attrs[self]["status"]
          THEN /\ raised' = "none"
               /\ <<call'.native, attrs[self]["status"], attrs'[self]["status"]>>
                    \in SoundTransitions
          ELSE raised' # "none"]_vars

\* pause has just failed on a Sound that was stopped, the game running.
C2_Witness ==
  \E self \in Sounds :
    /\ call.native = "Sound.pause"
    /\ call.self = self
    /\ raised = "Error"
    /\ attrs[self]["status"] = "stopped"
    /\ attrs[GAME]["running"] = TRUE_ID

\* The contents of game.sounds (nothing when the list does not exist yet).
gameSounds(a, l) == IF a[GAME]["sounds"] = Unset THEN <<>> ELSE l[a[GAME]["sounds"]]

\* C3: play returns only when game.running is TRUE_ID, which is so exactly when
\* the last of game.doStart and game.stop was doStart; when it is unset or
\* FALSE_ID play raises an error and leaves the Sound's status and game.sounds
\* as they were.
C3_PlayRequiresRunningGame ==
  [][/\ \A self \in Sounds :
          (call'.native = "Sound.play" /\ call'.self = self) =>
            /\ raised' = "none" => attrs[GAME]["running"] = TRUE_ID
            /\ attrs[GAME]["running"] # TRUE_ID =>
                 /\ raised' = "Error"
                 /\ attrs'[self]["status"] = attrs[self]["status"]
                 /\ attrs'[GAME]["sounds"] = attrs[GAME]["sounds"]
                 /\ gameSounds(attrs', lists') = gameSounds(attrs, lists)
     /\ call'.native = "game.doStart" => attrs'[GAME]["running"] = TRUE_ID
     /\ call'.native = "game.stop" => attrs'[GAME]["running"] = FALSE_ID
     /\ call'.native \notin { "game.doStart", "game.stop" } =>
          attrs'[GAME]["running"] = attrs[GAME]["running"]]_vars

\* play has just failed on a game that was started and stopped again, while
\* another Sound is being played.
C3_Witness ==
  \E self \in Sounds :
    /\ call.native = "Sound.play"
    /\ call.self = self
    /\ raised = "Error"
    /\ attrs[GAME]["running"] = FALSE_ID
    /\ attrs[self]["status"] = Unset
    /\ gameSounds(attrs, lists) # <<>>

HasConstructorClash(class) ==
  \E i, j \in DOMAIN class.members :
    /\ i # j
    /\ class.members[i].kind = "Constructor"
    /\ class.members[j].kind = "Constructor"
    /\ CompatibleArity(class.members[i], class.members[j])

\* C11: constructorsHaveDistinctArity is an Error on a Constructor exactly
\* when its Class has two distinct constructors with compatible arity.
C11_ArityErrorIffClash ==
  result.status = "returned" =>
    \A path \in NodesOfKind("Constructor") :
      ReportedAs("constructorsHaveDistinctArity", "Error", path)
        <=> HasConstructorClash(parentOf(environment, path))


(***************************************************************************)
(* SpecVisual: any sequence of the natives of game that add, remove and    *)
(* query visuals, the interpreter consuming results in between.            *)
(***************************************************************************)
InitVisual ==
  /\ InitValidator
  /\ InitRuntime
  /\ positionMethod \in [Visuals -> { "p1", Unset }]

\* A native is called where no operand is pending: the interpreter has
\* consumed the result of the call before.
Sent(native) ==
  /\ stack = <<>>
  /\ native
  /\ UNCHANGED <<validatorVars, positionMethod, calls>>

NextVisual ==
  \/ Sent(gameAddVisual)
  \/ Sent(gameAddVisualIn)
  \/ Sent(gameRemoveVisual)
  \/ Sent(gameClear)
  \/ Sent(gameAllVisuals)
  \/ Sent(gameHasVisual)
  \/ Sent(gameGetObjectsIn)
  \/ Sent(gameColliders)
  \/ popOperand /\ UNCHANGED <<validatorVars, positionMethod, calls>>

SpecVisual == InitVisual /\ [][NextVisual]_vars


(***************************************************************************)
(* Properties of the visuals of game.                                      *)
(***************************************************************************)
\* The contents of game.visuals (nothing when the list does not exist yet).
gameVisuals(a, l) == IF a[GAME]["visuals"] = Unset THEN <<>> ELSE l[a[GAME]["visuals"]]

NoDuplicates(s) == \A i, j \in DOMAIN s : s[i] = s[j] => i = j

\* C12: game.visuals never contains an Id twice, and adding a visual whose Id
\* is in game.visuals raises a TypeError and leaves its contents unchanged.
C12_VisualsHaveNoDuplicates ==
  /\ []NoDuplicates(gameVisuals(attrs, lists))
  /\ [][(/\ call'.native \in { "game.addVisual", "game.addVisualIn" }
         /\ call'.args[1] \in Range(gameVisuals(attrs, lists)))
        => /\ raised' = "TypeError"
           /\ gameVisuals(attrs', lists') = gameVisuals(attrs, lists)]_vars

\* addVisual has just failed on a visual that has a position method and is in
\* game.visuals, next to another one.
C12_Witness ==
  /\ call.native = "game.addVisual"
  /\ raised = "TypeError"
  /\ call.args[1] \in Range(gameVisuals(attrs, lists))
  /\ lookupMethod(call.args[1])
  /\ Len(gameVisuals(attrs, lists)) = 2


\* visual.position set to position, then the addVisual native called on visual.
SetPositionThenAddVisual(visual, position) ==
  gameAddVisualOn(IF visual = NULL_ID THEN attrs
                  ELSE setAttribute(attrs, visual, "position", position),
                  lists, stack, visual)

\* C13 as stated: addVisualIn(visual, position) raises the errors, and on
\* success leaves the game.visuals and the operand stack, of setting
\* visual.position to position and then calling the addVisual native.
C13_AddVisualInIsSetThenAddVisual ==
  [][call'.native = "game.addVisualIn" =>
       LET outcome == SetPositionThenAddVisual(call'.args[1], call'.args[2])
       IN /\ raised' = outcome.error
          /\ outcome.error = "none" =>
               /\ gameVisuals(attrs', lists') = gameVisuals(outcome.attrs, outcome.lists)
               /\ stack' = outcome.stack]_vars

\* C13: addVisualIn(visual, position) raises a TypeError when visual or
\* position is null; otherwise it sets visual.position and adds visual to
\* game.visuals unless it is there already, whether or not visual's module
\* resolves a position method; when the module does, that is the outcome of
\* setting visual.position and then calling the addVisual native.
C13_AddVisualInSetsThenAdds ==
  [][call'.native = "game.addVisualIn" =>
       LET visual == call'.args[1]
           position == call'.args[2]
           visuals == gameVisuals(attrs, lists)
       IN IF visual = NULL_ID \/ position = NULL_ID
          THEN /\ raised' = "TypeError"
               /\ attrs' = attrs
               /\ stack' = stack
               /\ gameVisuals(attrs', lists') = visuals
          ELSE /\ attrs'[visual]["position"] = position
               /\ raised' = IF visual \in Range(visuals) THEN "TypeError" ELSE "none"
               /\ gameVisuals(attrs', lists') =
                    IF visual \in Range(visuals) THEN visuals ELSE Append(visuals, visual)
               /\ stack' = IF visual \in Range(visuals) THEN stack ELSE Append(stack, VOID_ID)
               /\ lookupMethod(visual) =>
                    LET outcome == SetPositionThenAddVisual(visual, position)
                    IN /\ raised' = outcome.error
                       /\ attrs' = outcome.attrs
                       /\ gameVisuals(attrs', lists') = gameVisuals(outcome.attrs, outcome.lists)
                       /\ stack' = outcome.stack]_vars

\* addVisualIn has just added a visual whose module resolves no position
\* method.
C13_Witness ==
  /\ call.native = "game.addVisualIn"
  /\ raised = "none"
  /\ ~lookupMethod(call.args[1])
  /\ call.args[1] \in Range(gameVisuals(attrs, lists))
  /\ attrs[call.args[1]]["position"] = call.args[2]


\* C14: removeVisual(v) leaves game.visuals without v, the other visuals in
\* their order, and creates no list when game.visuals does not exist;
\* hasVisual(v) returns TRUE_ID when v is in game.visuals and FALSE_ID when it
\* is not or game.visuals does not exist, so FALSE_ID after removeVisual(v).
C14_RemoveVisualRemovesById ==
  [][/\ call'.native = "game.removeVisual" =>
          /\ raised' = "none"
          /\ attrs' = attrs
          /\ stack' = Append(stack, VOID_ID)
          /\ call'.args[1] \notin Range(gameVisuals(attrs', lists'))
          /\ gameVisuals(attrs', lists') =
               SelectSeq(gameVisuals(attrs, lists), LAMBDA id : id # call'.args[1])
     /\ call'.native = "game.hasVisual" =>
          /\ raised' = "none"
          /\ attrs' = attrs
          /\ gameVisuals(attrs', lists') = gameVisuals(attrs, lists)
          /\ stack' = Append(stack, IF call'.args[1] \in Range(gameVisuals(attrs, lists))
                                    THEN TRUE_ID ELSE FALSE_ID)]_vars

\* removeVisual has just run on the first of two visuals: a visual that was
\* added by addVisualIn is not in game.visuals, the other one is.
C14_Witness ==
  /\ call.native = "game.removeVisual"
  /\ call.args[1] # NULL_ID
  /\ attrs[call.args[1]]["position"] # Unset
  /\ ~lookupMethod(call.args[1])
  /\ call.args[1] \notin Range(gameVisuals(attrs, lists))
  /\ Len(gameVisuals(attrs, lists)) = 1


(***************************************************************************)
(* SpecAllVisuals: any sequence of game.allVisuals and of the natives that *)
(* change game.visuals, results staying on the operand stack of the frame  *)
(* while later natives are called.                                         *)
(***************************************************************************)
NextAllVisuals ==
  \/ Evaluated(gameAddVisual)
  \/ Evaluated(gameRemoveVisual)
  \/ Evaluated(gameClear)
  \/ Evaluated(gameAllVisuals)
  \/ popOperand /\ UNCHANGED <<validatorVars, positionMethod, calls>>

SpecAllVisuals == InitVisual /\ [][NextAllVisuals]_vars


\* C15: allVisuals pushes the Id of a List that did not exist, so not that of
\* game.visuals, holding the Ids of game.visuals in their order (none when
\* game.visuals is absent), and leaves game.visuals as it was; no later native
\* changes a List an operand refers to.
C15_AllVisualsReturnsCopy ==
  [][/\ call'.native = "game.allVisuals" =>
          /\ raised' = "none"
          /\ attrs' = attrs
          /\ gameVisuals(attrs', lists') = gameVisuals(attrs, lists)
          /\ Len(stack') = Len(stack) + 1
          /\ SubSeq(stack', 1, Len(stack)) = stack
          /\ stack'[Len(stack')] \notin DOMAIN lists
          /\ stack'[Len(stack')] # attrs[GAME]["visuals"]
          /\ lists'[stack'[Len(stack')]] = gameVisuals(attrs, lists)
     /\ call'.native # "none" =>
          \A i \in DOMAIN stack :
            stack[i] \in DOMAIN lists =>
              /\ stack'[i] = stack[i]
              /\ stack[i] # attrs'[GAME]["visuals"]
              /\ lists'[stack[i]] = lists[stack[i]]]_vars

\* removeVisual has just emptied game.visuals while an operand is the List
\* allVisuals returned before, which still holds the visual.
C15_Witness ==
  /\ call.native = "game.removeVisual"
  /\ attrs[GAME]["visuals"] # Unset
  /\ gameVisuals(attrs, lists) = <<>>
  /\ \E i \in DOMAIN stack : stack[i] \in DOMAIN lists /\ lists[stack[i]] = <<call.args[1]>>


\* The position of a visual: its position field when it has one, and
\* otherwise what its position method answers.
PositionOf(visual) ==
  IF attrs[visual]["position"] # Unset THEN attrs[visual]["position"]
  ELSE positionMethod[visual]

\* Both coordinates of the two positions are the same Ids.
SameCoordinates(p, q) == attrs[p]["x"] = attrs[q]["x"] /\ attrs[p]["y"] = attrs[q]["y"]

\* The visuals of game.visuals, in their order, whose position has the
\* coordinates of position.
ObjectsIn(position) ==
  SelectSeq(gameVisuals(attrs, lists), LAMBDA v : SameCoordinates(PositionOf(v), position))

\* C16: getObjectsIn(position) pushes one operand, a new List of the visuals of
\* game.visuals, in their order, whose position (field first, else method) has
\* the x and the y of position; attributes are as before.
C16_GetObjectsInSelectsByCoordinates ==
  [][call'.native = "game.getObjectsIn" =>
       /\ raised' = "none"
       /\ attrs' = attrs
       /\ Len(stack') = Len(stack) + 1
       /\ SubSeq(stack', 1, Len(stack)) = stack
       /\ stack'[Len(stack')] \notin DOMAIN lists
       /\ lists'[stack'[Len(stack')]] = ObjectsIn(call'.args[1])]_vars

\* getObjectsIn has just returned one of two visuals: its position field is
\* another position with the coordinates asked for, while its position method
\* answers something else or nothing; the position of the other visual
\* differs in y only.
C16_Witness ==
  /\ call.native = "game.getObjectsIn"
  /\ raised = "none"
  /\ Len(gameVisuals(attrs, lists)) = 2
  /\ \E v, w \in Visuals :
       /\ lists[stack[Len(stack)]] = <<v>>
       /\ w \in Range(gameVisuals(attrs, lists)) \ { v }
       /\ attrs[v]["position"] \notin { Unset, call.args[1], positionMethod[v] }
       /\ attrs[PositionOf(w)]["x"] = attrs[call.args[1]]["x"]
       /\ attrs[PositionOf(w)]["y"] # attrs[call.args[1]]["y"]


\* The visual has a position field or a position method.
HasPosition(visual) == attrs[visual]["position"] # Unset \/ lookupMethod(visual)

\* C17: colliders(visual) raises a TypeError when visual is null; for a visual
\* that has a position it pushes a new List of what getObjectsIn gives for that
\* position without visual: the visuals of game.visuals at visual's position,
\* visual itself never among them.
C17_CollidersAreObjectsInWithoutVisual ==
  [][call'.native = "game.colliders" =>
       LET visual == call'.args[1]
       IN /\ attrs' = attrs
          /\ visual = NULL_ID => raised' = "TypeError" /\ stack' = stack
          /\ (visual # NULL_ID /\ HasPosition(visual)) =>
               /\ raised' = "none"
               /\ Len(stack') = Len(stack) + 1
               /\ SubSeq(stack', 1, Len(stack)) = stack
               /\ stack'[Len(stack')] \notin DOMAIN lists
               /\ lists'[stack'[Len(stack')]] =
                    SelectSeq(ObjectsIn(PositionOf(visual)), LAMBDA id : id # visual)
               /\ visual \notin Range(lists'[stack'[Len(stack')]])]_vars

\* colliders has just returned the other of the two visuals of game.visuals:
\* its position is another position with the coordinates of visual's.
C17_Witness ==
  /\ call.native = "game.colliders"
  /\ raised = "none"
  /\ Len(gameVisuals(attrs, lists)) = 2
  /\ call.args[1] \in Range(gameVisuals(attrs, lists))
  /\ \E w \in Visuals \ { call.args[1] } :
       /\ lists[stack[Len(stack)]] = <<w>>
       /\ PositionOf(w) # PositionOf(call.args[1])


(***************************************************************************)
(* SpecProperty: any sequence of the property accessors of game and Sound, *)
(* the interpreter consuming each result.                                  *)
(***************************************************************************)
NextProperty ==
  \/ Sent(gameTitle)
  \/ Sent(gameWidth)
  \/ Sent(gameHeight)
  \/ Sent(\E self \in Sounds : SoundVolume(self))
  \/ Sent(\E self \in Sounds : SoundShouldLoop(self))
  \/ popOperand /\ UNCHANGED <<validatorVars, positionMethod, calls>>

SpecProperty == InitSound /\ [][NextProperty]_vars


(***************************************************************************)
(* Properties of the property accessors.                                   *)
(***************************************************************************)
\* The attribute each property accessor reads and writes.
AccessorKey ==
  [n \in { "game.title", "game.width", "game.height", "Sound.shouldLoop", "Sound.volume" } |->
     CASE n = "game.title" -> "title"
       [] n = "game.width" -> "width"
       [] n = "game.height" -> "height"
       [] n = "Sound.shouldLoop" -> "loop"
       [] n = "Sound.volume" -> "volume"]

\* The operand a get pushes: the Id stored, NULL_ID when nothing is.
Stored(self, key) == IF attrs[self][key] = Unset THEN NULL_ID ELSE attrs[self][key]

\* C18: title, width, height and shouldLoop called with a value store its Id
\* under their attribute and push VOID_ID; called without one they push the Id
\* stored, NULL_ID when none is, and change no attribute; nothing else changes
\* the attribute, so a get after a set returns the value set.
C18_AccessorsSetAndGet ==
  [][/\ call'.native \in { "game.title", "game.width", "game.height", "Sound.shouldLoop" } =>
          LET self == call'.self
              key == AccessorKey[call'.native]
          IN /\ raised' = "none"
             /\ IF call'.args # <<>>
                THEN /\ attrs' = [attrs EXCEPT ![self][key] = call'.args[1]]
                     /\ stack' = Append(stack, VOID_ID)
                ELSE /\ attrs' = attrs
                     /\ stack' = Append(stack, Stored(self, key))
     /\ \A o \in Objects, k \in Keys :
          attrs'[o][k] # attrs[o][k] =>
            /\ call'.native \in DOMAIN AccessorKey
            /\ call'.args # <<>>
            /\ call'.self = o
            /\ AccessorKey[call'.native] = k]_vars

\* shouldLoop without a value has just returned the FALSE_ID stored for the
\* Sound.
C18_Witness ==
  /\ call.native = "Sound.shouldLoop"
  /\ call.args = <<>>
  /\ stack = <<FALSE_ID>>
  /\ attrs[call.self]["loop"] = FALSE_ID

\* C19: Sound.volume(v) with v below 0 or above 1 raises a RangeError, pushes
\* nothing and leaves the volume stored; with v from 0 to 1 it stores v and
\* pushes VOID_ID; without a value it pushes the volume stored, or NULL_ID.
C19_VolumeIsWithinRange ==
  [][call'.native = "Sound.volume" =>
       LET self == call'.self
       IN IF call'.args = <<>>
          THEN /\ raised' = "none"
               /\ attrs' = attrs
               /\ stack' = Append(stack, Stored(self, "volume"))
          ELSE IF innerValue(call'.args[1]) < 0 \/ innerValue(call'.args[1]) > 1
          THEN /\ raised' = "RangeError"
               /\ attrs' = attrs
               /\ stack' = stack
          ELSE /\ raised' = "none"
               /\ attrs' = [attrs EXCEPT ![self]["volume"] = call'.args[1]]
               /\ stack' = Append(stack, VOID_ID)]_vars

\* volume(2) has just failed on a Sound whose volume is 1, the upper bound.
C19_Witness ==
  /\ call.native = "Sound.volume"
  /\ call.args = <<NumberId(2)>>
  /\ raised = "RangeError"
  /\ attrs[call.self]["volume"] = NumberId(1)


\* C20: whatever game.doStart, game.stop, game.clear and the Sound events did,
\* returning or raising, a Sound is in game.sounds exactly when its status is
\* "played" or "paused", and never twice.
C20_SoundsAreThePlayedAndPaused ==
  /\ NoDuplicates(gameSounds(attrs, lists))
  /\ \A self \in Sounds :
       self \in Range(gameSounds(attrs, lists))
         <=> attrs[self]["status"] \in { "played", "paused" }

\* play has just failed on a Sound that is in game.sounds, while the other
\* Sound was stopped and is not.
C20_Witness ==
  \E self, other \in Sounds :
    /\ call.native = "Sound.play"
    /\ call.self = self
    /\ raised = "TypeError"
    /\ gameSounds(attrs, lists) = <<self>>
    /\ attrs[other]["status"] = "stopped"


\* C21: a play, stop, pause or resume that raises an error leaves the status
\* of the Sound and the contents of game.sounds as they were before the call.
C21_FailingEventChangesNothing ==
  [][\A self \in Sounds :
       (/\ call'.native \in SoundEvents
        /\ call'.self = self
        /\ raised' # "none")
       => /\ attrs'[self]["status"] = attrs[self]["status"]
          /\ gameSounds(attrs', lists') = gameSounds(attrs, lists)]_vars

====
